---------------------------- MODULE Spec2Model ----------------------------
(***************************************************************************)
(* Model of LifeSupportSD.ino: setup() followed by repeated loop() calls.  *)
(*                                                                         *)
(* Text is a sequence of strings.  Numbers are rendered character by       *)
(* character; string literals of the sketch are kept as one piece (the     *)
(* two CSV headers are split at their commas).  Floating values are        *)
(* integers in hundredths.                                                 *)
(***************************************************************************)
EXTENDS Integers, Sequences, FiniteSets, TLC

\* ------------------------------------------------------------- bounds
\* Number of loop() calls the model runs.
MaxCycles == 2

\* ---------------------------------------------------------- constants
TempBufferSize == 12
BLINK_MS == 100
REST_MS == 4900
RETRY_MS == 5000
SETUP_WAIT_MS == 5000
DEVICE_DISCONNECTED_C == -12700
\* The value a float holds when isnan() is true of it.
NaN == -99999999

\* ------------------------------------------------- environment inputs
\* Values the drivers can return (hundredths for floats).
DHT_H_Values == {4000}
DHT_T_Values == {2150, NaN}
UV_Values == {123}
\* MS5611: <<pressure mBar, temperature C, altitude ft>> of one read().
MS5611_Values == {<<101325, 2100, 15000>>}
\* rtc.now(): <<year, month, day, hour, minute, second>>.
RTC_Values == {<<2024, 6, 1, 12, 0, 0>>}
\* getTempCByIndex(0): a reading, or the library's disconnected value.
Probe_Values == {2075, DEVICE_DISCONNECTED_C}
\* Error codes of the SCD4x driver calls; 0 is NoError.
SCD_Errors == {0, 527}
\* readMeasurement(): <<co2 ppm, temperature, humidity>>.
SCD_Values == {<<800, 2130, 4100>>, <<0, 2200, 3900>>}
\* Contents datalog.csv can have when the board is powered on.
FileHeader ==
  <<"Timestamp", ",", "DHT_Temp(C)", ",", "DHT_Hum(%)", ",", "UV_Raw", ",",
    "Press(mBar)", ",", "Press_Temp(C)", ",", "Press_Alt(Ft)", ",",
    "Probe_Temp(C)", ",", "CO2(ppm)", ",", "SCD_Temp(C)", ",", "SCD_Hum(%)">>
SerialHeader ==
  <<"Timestamp", ",", "DHT_Temp(C)", ",", "DHT_Hum(%)", ",", "UV_Raw", ",",
    "Press(mBar)", ",", "Press_Temp(C)", ",", "Press_Alt(Ft)", ",",
    "Probe_Temp(C)", ",", "CO2(ppm)", ",", "SCD_Temp(C)", ",", "SCD_Hum(%)">>
EOL == <<"\r\n">>

\* ------------------------------------------------------ text helpers
DigitChar == <<"0", "1", "2", "3", "4", "5", "6", "7", "8", "9">>

RECURSIVE Digits(_)
Digits(n) ==
  IF n < 10 THEN <<DigitChar[n + 1]>>
  ELSE Digits(n \div 10) \o <<DigitChar[(n % 10) + 1]>>

Abs(n) == IF n < 0 THEN -n ELSE n

RECURSIVE PadLeft(_, _, _)
PadLeft(s, width, ch) ==
  IF Len(s) >= width THEN s ELSE PadLeft(<<ch>> \o s, width, ch)

\* Print::print(int) and Print::print(unsigned): plain decimal.
PrintInt(n) == (IF n < 0 THEN <<"-">> ELSE <<>>) \o Digits(Abs(n))

\* printf "%0<w>d" of a non-negative value.
ZeroPad(n, width) == PadLeft(Digits(n), width, "0")

\* dtostrf(val, width, 2, buf): sign, integer part, '.', two decimals,
\* right-justified in at least width characters.
Dtostrf(val, width, prec) ==
  IF val = NaN THEN PadLeft(<<"N", "A", "N">>, width, " ")
  ELSE PadLeft((IF val < 0 THEN <<"-">> ELSE <<>>)
               \o Digits(Abs(val) \div 100) \o <<".">>
               \o PadLeft(Digits(Abs(val) % 100), prec, "0"),
               width, " ")

\* sprintf(tempBuffer, "%04d-%02d-%02dT%02d:%02d:%02d", ...)
SprintfTimestamp(t) ==
  ZeroPad(t[1], 4) \o <<"-">> \o ZeroPad(t[2], 2) \o <<"-">>
  \o ZeroPad(t[3], 2) \o <<"T">> \o ZeroPad(t[4], 2) \o <<":">>
  \o ZeroPad(t[5], 2) \o <<":">> \o ZeroPad(t[6], 2)

\* Print::println(x) is print(x) followed by "\r\n".
Println(text) == text \o EOL

\* ------------------------------------------------------------- state
VARIABLES
  pc,           \* next statement of setup()/loop()
  spi,          \* SPI hardware enabled (SPI.begin .. SPI.end)
  sdOk,         \* result of SD.begin in setup
  fileExists,   \* datalog.csv exists on the card
  file,         \* content of datalog.csv
  serialOut,    \* console output of setup, then of the running cycle
  led,          \* level of LED_PIN
  dht_h, dht_t, uvValue, press_mBar, press_Temp, press_Alt, now, probeTempC,
  error, isDataReady,
  dataFile,     \* the File object of loop()/setup: "closed", "open", "clobbered"
  tempBuffer,   \* text last formatted into tempBuffer
  retAddr,      \* return address saved in loop()'s frame: "intact", "smashed"
  scd4x_co2, scd4x_temp, scd4x_hum,
  cycle,        \* index of the running loop() call
  waited,       \* ms spent in delay() in this cycle
  acq, rel,     \* SPI.begin / SPI.end calls in this cycle
  pulses,       \* LED LOW->HIGH pulses in this cycle
  fileAtStart,  \* content of datalog.csv when the cycle started
  lineStart,    \* length of serialOut when the data line started, -1 before
  opened,       \* result of this cycle's SD.open: "pending", "ok", "fail"
  prevOutcome,  \* result of the previous cycle's SD.open, "none" at first
  lastGood      \* last measurement the SCD4x returned without error

sensorV == <<dht_h, dht_t, uvValue, press_mBar, press_Temp, press_Alt, now,
             probeTempC, retAddr>>
scdV == <<error, isDataReady, scd4x_co2, scd4x_temp, scd4x_hum, lastGood>>
cardV == <<sdOk, fileExists, file>>
cycleV == <<cycle, waited, acq, rel, pulses, fileAtStart, lineStart, opened,
            prevOutcome>>
vars == <<pc, spi, serialOut, led, dataFile, tempBuffer, sensorV, scdV,
          cardV, cycleV>>

InitialFiles == {<<>>, Println(FileHeader)}

Init ==
  /\ pc = "s_serial"
  /\ spi = FALSE
  /\ sdOk = FALSE
  /\ \E present \in BOOLEAN :
       /\ fileExists = present
       /\ file \in (IF present THEN InitialFiles ELSE {<<>>})
  /\ serialOut = <<>>
  /\ led = "unset"
  /\ dht_h = 0 /\ dht_t = 0 /\ uvValue = 0
  /\ press_mBar = 0 /\ press_Temp = 0 /\ press_Alt = 0
  /\ now = <<0, 0, 0, 0, 0, 0>>
  /\ probeTempC = 0
  /\ error = 0 /\ isDataReady = FALSE
  /\ dataFile = "closed"
  /\ tempBuffer = <<>>
  /\ retAddr = "intact"
  /\ scd4x_co2 = 0 /\ scd4x_temp = 0 /\ scd4x_hum = 0
  /\ cycle = 0 /\ waited = 0 /\ acq = 0 /\ rel = 0 /\ pulses = 0
  /\ fileAtStart = file
  /\ lineStart = -1
  /\ opened = "pending"
  /\ prevOutcome = "none"
  /\ lastGood = <<0, 0, 0>>

\* Serial.print / Serial.println
SerialPrint(text) == serialOut' = serialOut \o text
SerialPrintln(text) == serialOut' = serialOut \o Println(text)

Goto(from, to) == pc = from /\ pc' = to

\* ------------------------------------------------------------- setup
\* Lines 83-87.
SetupSerial ==
  /\ Goto("s_serial", "s_led")
  /\ SerialPrintln(<<"Combined Sensor Test Initializing...">>)
  /\ UNCHANGED <<spi, led, dataFile, tempBuffer, sensorV, scdV, cardV, cycleV>>

\* Mutant: the pin is left LOW by setup().
SetupLed_Low ==
  /\ Goto("s_led", "s_dht")
  /\ led' = "LOW"
  /\ UNCHANGED <<spi, serialOut, dataFile, tempBuffer, sensorV, scdV, cardV,
                 cycleV>>

\* Lines 89-92.
SetupLed ==
  /\ Goto("s_led", "s_dht")
  /\ led' = "HIGH"
  /\ UNCHANGED <<spi, serialOut, dataFile, tempBuffer, sensorV, scdV, cardV,
                 cycleV>>

\* Lines 94-100.
SetupDhtUv ==
  /\ Goto("s_dht", "s_ms5611")
  /\ SerialPrint(Println(<<"Initializing DHT22...">>)
                 \o Println(<<"Initializing UV Sensor...">>))
  /\ UNCHANGED <<spi, led, dataFile, tempBuffer, sensorV, scdV, cardV, cycleV>>

\* Lines 102-108.
SetupMs5611 ==
  /\ Goto("s_ms5611", "s_rtc")
  /\ \E found \in BOOLEAN :
       SerialPrint(Println(<<"Initializing MS5611 (Pressure)...">>)
                   \o (IF found THEN Println(<<"MS5611 found.">>)
                       ELSE Println(<<"MS5611 not found. Check wiring.">>)))
  /\ UNCHANGED <<spi, led, dataFile, tempBuffer, sensorV, scdV, cardV, cycleV>>

\* Lines 110-117.
SetupRtc ==
  /\ Goto("s_rtc", "s_scd")
  /\ \E begun \in BOOLEAN, running \in BOOLEAN :
       SerialPrint(Println(<<"Initializing DS1307 (RTC)...">>)
                   \o (IF ~begun
                       THEN Println(<<"Couldn't find RTC! Check wiring.">>)
                       ELSE <<>>)
                   \o (IF ~running
                       THEN Println(<<"RTC is NOT running, setting time!">>)
                       ELSE <<>>))
  /\ UNCHANGED <<spi, led, dataFile, tempBuffer, sensorV, scdV, cardV, cycleV>>

\* Lines 119-138.
SetupScd ==
  /\ Goto("s_scd", "s_sdbegin")
  /\ \E stopErr \in SCD_Errors, startErr \in SCD_Errors :
       SerialPrint(Println(<<"Initializing SCD41 (CO2)...">>)
                   \o Println(<<"...SCD41 init done.">>)
                   \o (IF stopErr # 0
                       THEN <<"Error stopping SCD41: ">>
                            \o Println(PrintInt(stopErr))
                       ELSE <<>>)
                   \o (IF startErr # 0
                       THEN <<"Error starting SCD41: ">>
                            \o Println(PrintInt(startErr))
                       ELSE <<>>))
  /\ UNCHANGED <<spi, led, dataFile, tempBuffer, sensorV, scdV, cardV, cycleV>>

\* Lines 140-146.  SD.begin starts the SPI hardware whether or not a card
\* answers.
SetupSdBegin ==
  /\ Goto("s_sdbegin", "s_spiend1")
  /\ spi' = TRUE
  /\ acq' = acq + 1
  /\ \E ok \in BOOLEAN :
       /\ sdOk' = ok
       /\ SerialPrint(<<"Initializing SD card...">>
                      \o (IF ok THEN Println(<<"...initialization done.">>)
                          ELSE Println(<<"...initialization failed!">>)))
  /\ UNCHANGED <<led, dataFile, tempBuffer, sensorV, scdV, fileExists, file,
                 cycle, waited, rel, pulses, fileAtStart, lineStart, opened,
                 prevOutcome>>

\* Mutant: the probe is initialised with the SPI hardware still enabled.
SetupSpiEnd1_NoRelease ==
  /\ Goto("s_spiend1", "s_probe")
  /\ rel' = rel + 1
  /\ SerialPrintln(<<"SPI hardware released.">>)
  /\ UNCHANGED <<spi, led, dataFile, tempBuffer, sensorV, scdV, cardV, cycle,
                 waited, acq, pulses, fileAtStart, lineStart, opened,
                 prevOutcome>>

\* Lines 148-150.
SetupSpiEnd1 ==
  /\ Goto("s_spiend1", "s_probe")
  /\ spi' = FALSE
  /\ rel' = rel + 1
  /\ SerialPrintln(<<"SPI hardware released.">>)
  /\ UNCHANGED <<led, dataFile, tempBuffer, sensorV, scdV, cardV, cycle,
                 waited, acq, pulses, fileAtStart, lineStart, opened,
                 prevOutcome>>

\* Lines 152-155: sensors.begin() searches the single-wire bus.
SetupProbeBegin ==
  /\ Goto("s_probe", "s_delay")
  /\ SerialPrint(Println(<<"Initializing DS18B20 (Temp Probe)...">>)
                 \o Println(<<"...DS18B20 init done.">>))
  /\ UNCHANGED <<spi, led, dataFile, tempBuffer, sensorV, scdV, cardV, cycleV>>

\* Lines 158-159.
SetupDelay ==
  /\ Goto("s_delay", "s_spibegin")
  /\ SerialPrintln(<<"All sensors initialized. Waiting 5s for SCD41...">>)
  /\ waited' = waited + SETUP_WAIT_MS
  /\ UNCHANGED <<spi, led, dataFile, tempBuffer, sensorV, scdV, cardV, cycle,
                 acq, rel, pulses, fileAtStart, lineStart, opened, prevOutcome>>

\* Mutant: the header check runs without re-enabling SPI.
SetupSpiBegin_Skipped ==
  /\ Goto("s_spibegin", "s_exists")
  /\ UNCHANGED <<spi, serialOut, led, dataFile, tempBuffer, sensorV, scdV,
                 cardV, cycleV>>

\* Line 163.
SetupSpiBegin ==
  /\ Goto("s_spibegin", "s_exists")
  /\ spi' = TRUE
  /\ acq' = acq + 1
  /\ UNCHANGED <<serialOut, led, dataFile, tempBuffer, sensorV, scdV, cardV,
                 cycle, waited, rel, pulses, fileAtStart, lineStart, opened,
                 prevOutcome>>

\* SD.exists(filename): false when the card was not initialised.
SdExists == sdOk /\ fileExists

\* Lines 166-167, 175-177.
SetupExists ==
  /\ pc = "s_exists"
  /\ IF ~SdExists
     THEN /\ SerialPrintln(<<"Creating datalog.csv and writing headers...">>)
          /\ pc' = "s_create"
     ELSE /\ SerialPrintln(<<"datalog.csv already exists.">>)
          /\ pc' = "s_spiend2"
  /\ UNCHANGED <<spi, led, dataFile, tempBuffer, sensorV, scdV, cardV, cycleV>>

\* Lines 168-169, 172-174: SD.open(filename, FILE_WRITE) creates the file;
\* it cannot succeed without an initialised card and can fail on one.
SetupCreate ==
  /\ pc = "s_create"
  /\ \E ok \in BOOLEAN :
       IF sdOk /\ ok
       THEN /\ dataFile' = "open"
            /\ fileExists' = TRUE
            /\ file' = IF fileExists THEN file ELSE <<>>
            /\ pc' = "s_hdr"
            /\ UNCHANGED serialOut
       ELSE /\ SerialPrintln(<<"Error creating datalog.csv">>)
            /\ pc' = "s_spiend2"
            /\ UNCHANGED <<dataFile, fileExists, file>>
  /\ UNCHANGED <<spi, led, tempBuffer, sensorV, scdV, sdOk, cycleV>>

\* Line 170.
SetupWriteHeader ==
  /\ Goto("s_hdr", "s_close")
  /\ file' = file \o Println(FileHeader)
  /\ UNCHANGED <<spi, serialOut, led, dataFile, tempBuffer, sensorV, scdV,
                 sdOk, fileExists, cycleV>>

\* Line 171.
SetupClose ==
  /\ Goto("s_close", "s_spiend2")
  /\ dataFile' = "closed"
  /\ UNCHANGED <<spi, serialOut, led, tempBuffer, sensorV, scdV, cardV, cycleV>>

\* Lines 179-180.
SetupSpiEnd2 ==
  /\ Goto("s_spiend2", "s_header")
  /\ spi' = FALSE
  /\ rel' = rel + 1
  /\ SerialPrintln(<<"Header check done, SPI released.">>)
  /\ UNCHANGED <<led, dataFile, tempBuffer, sensorV, scdV, cardV, cycle,
                 waited, acq, pulses, fileAtStart, lineStart, opened,
                 prevOutcome>>

\* Mutant: the console header is printed a second time.
SetupSerialHeader_Twice ==
  /\ Goto("s_header", "s_return")
  /\ SerialPrint(Println(SerialHeader) \o Println(SerialHeader))
  /\ UNCHANGED <<spi, led, dataFile, tempBuffer, sensorV, scdV, cardV, cycleV>>

\* Line 183.
SetupSerialHeader ==
  /\ Goto("s_header", "s_return")
  /\ SerialPrintln(SerialHeader)
  /\ UNCHANGED <<spi, led, dataFile, tempBuffer, sensorV, scdV, cardV, cycleV>>

\* Line 184: setup() returns and main() makes the first loop() call.
SetupReturn ==
  /\ Goto("s_return", "l_dht_h")
  /\ serialOut' = <<>>
  /\ waited' = 0 /\ acq' = 0 /\ rel' = 0
  /\ fileAtStart' = file
  /\ UNCHANGED <<spi, led, dataFile, tempBuffer, sensorV, scdV, cardV, cycle,
                 pulses, lineStart, opened, prevOutcome>>

Setup ==
  \/ SetupSerial \/ SetupLed \/ SetupDhtUv \/ SetupMs5611 \/ SetupRtc
  \/ SetupScd \/ SetupSdBegin \/ SetupSpiEnd1 \/ SetupProbeBegin
  \/ SetupDelay \/ SetupSpiBegin \/ SetupExists \/ SetupCreate
  \/ SetupWriteHeader \/ SetupClose \/ SetupSpiEnd2 \/ SetupSerialHeader
  \/ SetupReturn

\* -------------------------------------------------------------- loop
\* Line 192.
LoopReadDhtH ==
  /\ Goto("l_dht_h", "l_dht_t")
  /\ dht_h' \in DHT_H_Values
  /\ UNCHANGED <<spi, serialOut, led, dataFile, tempBuffer,
                 retAddr, dht_t, uvValue,
                 press_mBar, press_Temp, press_Alt, now, probeTempC, scdV,
                 cardV, cycleV>>

\* Line 193.
LoopReadDhtT ==
  /\ Goto("l_dht_t", "l_uv")
  /\ dht_t' \in DHT_T_Values
  /\ UNCHANGED <<spi, serialOut, led, dataFile, tempBuffer,
                 retAddr, dht_h, uvValue,
                 press_mBar, press_Temp, press_Alt, now, probeTempC, scdV,
                 cardV, cycleV>>

\* Line 196.
LoopReadUv ==
  /\ Goto("l_uv", "l_ms5611")
  /\ uvValue' \in UV_Values
  /\ UNCHANGED <<spi, serialOut, led, dataFile, tempBuffer,
                 retAddr, dht_h, dht_t,
                 press_mBar, press_Temp, press_Alt, now, probeTempC, scdV,
                 cardV, cycleV>>

\* Lines 199-202.
LoopReadMs5611 ==
  /\ Goto("l_ms5611", "l_rtc")
  /\ \E m \in MS5611_Values :
       press_mBar' = m[1] /\ press_Temp' = m[2] /\ press_Alt' = m[3]
  /\ UNCHANGED <<spi, serialOut, led, dataFile, tempBuffer,
                 retAddr, dht_h, dht_t,
                 uvValue, now, probeTempC, scdV, cardV, cycleV>>

\* Mutant: the clock is not read before the storage section.
LoopReadRtc_Skipped ==
  /\ Goto("l_rtc", "l_probe_req")
  /\ UNCHANGED <<spi, serialOut, led, dataFile, tempBuffer, sensorV, scdV,
                 cardV, cycleV>>

\* Line 205.
LoopReadRtc ==
  /\ Goto("l_rtc", "l_probe_req")
  /\ now' \in RTC_Values
  /\ UNCHANGED <<spi, serialOut, led, dataFile, tempBuffer,
                 retAddr, dht_h, dht_t,
                 uvValue, press_mBar, press_Temp, press_Alt, probeTempC, scdV,
                 cardV, cycleV>>

\* Line 208: sensors.requestTemperatures() drives the single-wire bus.
LoopProbeRequest ==
  /\ Goto("l_probe_req", "l_probe_get")
  /\ UNCHANGED <<spi, serialOut, led, dataFile, tempBuffer, sensorV, scdV,
                 cardV, cycleV>>

\* Lines 209-212.
LoopProbeGet ==
  /\ Goto("l_probe_get", "l_scd_ready")
  /\ \E t \in Probe_Values :
       probeTempC' = IF t = DEVICE_DISCONNECTED_C THEN -12700 ELSE t
  /\ UNCHANGED <<spi, serialOut, led, dataFile, tempBuffer,
                 retAddr, dht_h, dht_t,
                 uvValue, press_mBar, press_Temp, press_Alt, now, scdV, cardV,
                 cycleV>>

\* Lines 215-223.  The driver writes isDataReady only when it returns
\* NoError; the flag keeps its initial false otherwise.
LoopScdReady ==
  /\ pc = "l_scd_ready"
  /\ \E err \in SCD_Errors, ready \in BOOLEAN :
       /\ error' = err
       /\ isDataReady' = (err = 0 /\ ready)
       /\ serialOut' = IF err # 0
                       THEN serialOut \o <<"SCD4R_ERR:">> \o Println(PrintInt(err))
                       ELSE serialOut
       /\ pc' = IF isDataReady' THEN "l_scd_read" ELSE "l_spibegin"
  /\ UNCHANGED <<spi, led, dataFile, tempBuffer, sensorV, scd4x_co2,
                 scd4x_temp, scd4x_hum, lastGood, cardV, cycleV>>

\* Mutant: the co2 == 0 branch restores nothing but discards the reading's
\* temperature and humidity, and a read error clears the carried values.
LoopScdRead_Clears ==
  /\ Goto("l_scd_read", "l_spibegin")
  /\ \E err \in SCD_Errors, m \in SCD_Values :
       /\ error' = err
       /\ IF err # 0
          THEN /\ serialOut' = serialOut \o <<"SCD4M_ERR:">>
                                \o Println(PrintInt(err))
               /\ scd4x_co2' = 0 /\ scd4x_temp' = 0 /\ scd4x_hum' = 0
               /\ UNCHANGED lastGood
          ELSE /\ scd4x_co2' = m[1] /\ scd4x_temp' = m[2] /\ scd4x_hum' = m[3]
               /\ lastGood' = m
               /\ UNCHANGED serialOut
  /\ UNCHANGED <<spi, led, dataFile, tempBuffer, sensorV, isDataReady, cardV,
                 cycleV>>

\* Lines 224-228.  readMeasurement writes its three reference arguments
\* only when it returns NoError.  The co2 == 0 branch is empty.
LoopScdRead ==
  /\ Goto("l_scd_read", "l_spibegin")
  /\ \E err \in SCD_Errors, m \in SCD_Values :
       /\ error' = err
       /\ IF err # 0
          THEN /\ serialOut' = serialOut \o <<"SCD4M_ERR:">>
                                \o Println(PrintInt(err))
               /\ UNCHANGED <<scd4x_co2, scd4x_temp, scd4x_hum, lastGood>>
          ELSE /\ scd4x_co2' = m[1] /\ scd4x_temp' = m[2] /\ scd4x_hum' = m[3]
               /\ lastGood' = m
               /\ UNCHANGED serialOut
  /\ UNCHANGED <<spi, led, dataFile, tempBuffer, sensorV, isDataReady, cardV,
                 cycleV>>

\* Line 232.
LoopSpiBegin ==
  /\ Goto("l_spibegin", "l_open")
  /\ spi' = TRUE
  /\ acq' = acq + 1
  /\ UNCHANGED <<serialOut, led, dataFile, tempBuffer, sensorV, scdV, cardV,
                 cycle, waited, rel, pulses, fileAtStart, lineStart, opened,
                 prevOutcome>>

\* Mutant: the open in loop() creates a missing file (O_CREAT).
LoopOpen_Creates ==
  /\ pc = "l_open"
  /\ \E ok \in BOOLEAN :
       IF sdOk /\ ok
       THEN /\ dataFile' = "open" /\ opened' = "ok" /\ pc' = "l_ts"
            /\ fileExists' = TRUE
       ELSE /\ dataFile' = "closed" /\ opened' = "fail" /\ pc' = "l_fail"
            /\ UNCHANGED fileExists
  /\ UNCHANGED <<spi, serialOut, led, tempBuffer, sensorV, scdV, sdOk, file,
                 cycle, waited, acq, rel, pulses, fileAtStart, lineStart,
                 prevOutcome>>

\* Lines 234-238, 335: SD.open(filename, O_APPEND | O_WRITE) does not
\* create the file; it needs an initialised card and can fail on one.
LoopOpen ==
  /\ pc = "l_open"
  /\ \E ok \in BOOLEAN :
       IF sdOk /\ fileExists /\ ok
       THEN dataFile' = "open" /\ opened' = "ok" /\ pc' = "l_ts"
       ELSE dataFile' = "closed" /\ opened' = "fail" /\ pc' = "l_fail"
  /\ UNCHANGED <<spi, serialOut, led, tempBuffer, sensorV, scdV, cardV, cycle,
                 waited, acq, rel, pulses, fileAtStart, lineStart, prevOutcome>>

\* tempBuffer is char[12] (line 189); sprintf and dtostrf do not check it.
\* A text longer than 11 characters is written past its end.
Overflows(text) == Len(text) + 1 > TempBufferSize

\* The objects of loop()'s frame that are read after a write to tempBuffer
\* and can lie behind it; "none" stands for bytes no later statement reads
\* (now, error, isDataReady, padding); "retAddr" for the return address
\* that the call of loop() pushed above the locals.
FrameObjects ==
  {"none", "dht_h", "dht_t", "uvValue", "press_mBar", "press_Temp",
   "press_Alt", "probeTempC", "dataFile", "retAddr"}

Victims(text) == IF Overflows(text) THEN FrameObjects ELSE {"none"}

\* The object written over holds an arbitrary value of its type afterwards;
\* a File object written over no longer refers to the open file, a return
\* address written over no longer leads back to the caller.
Clobber(victim) ==
  /\ dht_h' \in (IF victim = "dht_h" THEN DHT_H_Values ELSE {dht_h})
  /\ dht_t' \in (IF victim = "dht_t" THEN DHT_T_Values ELSE {dht_t})
  /\ uvValue' \in (IF victim = "uvValue" THEN UV_Values ELSE {uvValue})
  /\ press_mBar' \in (IF victim = "press_mBar"
                      THEN {m[1] : m \in MS5611_Values} ELSE {press_mBar})
  /\ press_Temp' \in (IF victim = "press_Temp"
                      THEN {m[2] : m \in MS5611_Values} ELSE {press_Temp})
  /\ press_Alt' \in (IF victim = "press_Alt"
                     THEN {m[3] : m \in MS5611_Values} ELSE {press_Alt})
  /\ probeTempC' \in (IF victim = "probeTempC" THEN Probe_Values
                      ELSE {probeTempC})
  /\ dataFile' = IF victim = "dataFile" THEN "clobbered" ELSE dataFile
  /\ retAddr' = IF victim = "retAddr" THEN "smashed" ELSE retAddr
  /\ UNCHANGED now

\* File::print on dataFile: appends at the end of the file (O_APPEND);
\* nothing reaches the file through a File object that is not open.
FilePrint(handle, content, text) ==
  IF handle = "open" THEN content \o text ELSE content

\* Serial.print(lead); dataFile.print(lead); <format text into tempBuffer>;
\* Serial.print(tempBuffer); dataFile.print(tempBuffer);
BufferedPrint(from, to, lead, text) ==
  /\ Goto(from, to)
  /\ tempBuffer' = text
  /\ \E victim \in Victims(text) : Clobber(victim)
  /\ serialOut' = serialOut \o lead \o text
  /\ file' = FilePrint(dataFile', FilePrint(dataFile, file, lead), text)
  /\ UNCHANGED <<spi, led, scdV, sdOk, fileExists>>

\* Serial.print(text); dataFile.print(text); with no use of tempBuffer.
DirectPrint(from, to, text) ==
  /\ Goto(from, to)
  /\ serialOut' = serialOut \o text
  /\ file' = FilePrint(dataFile, file, text)
  /\ UNCHANGED <<spi, led, dataFile, tempBuffer, sensorV, scdV, sdOk,
                 fileExists>>

\* Lines 239-244.
LoopPrintTimestamp ==
  /\ BufferedPrint("l_ts", "l_f_dht_t", <<>>, SprintfTimestamp(now))
  /\ lineStart' = Len(serialOut)
  /\ UNCHANGED <<cycle, waited, acq, rel, pulses, fileAtStart, opened,
                 prevOutcome>>

\* Lines 246-256.
LoopPrintDhtTemp ==
  /\ IF dht_t = NaN
     THEN DirectPrint("l_f_dht_t", "l_f_dht_h", <<",", "N", "a", "N">>)
     ELSE BufferedPrint("l_f_dht_t", "l_f_dht_h", <<",">>, Dtostrf(dht_t, 4, 2))
  /\ UNCHANGED cycleV

\* Lines 258-268.
LoopPrintDhtHum ==
  /\ IF dht_h = NaN
     THEN DirectPrint("l_f_dht_h", "l_f_uv", <<",", "N", "a", "N">>)
     ELSE BufferedPrint("l_f_dht_h", "l_f_uv", <<",">>, Dtostrf(dht_h, 4, 2))
  /\ UNCHANGED cycleV

\* Lines 270-274.
LoopPrintUv ==
  /\ DirectPrint("l_f_uv", "l_f_press", <<",">> \o PrintInt(uvValue))
  /\ UNCHANGED cycleV

\* Lines 276-281.
LoopPrintPressure ==
  /\ BufferedPrint("l_f_press", "l_f_ptemp", <<",">>, Dtostrf(press_mBar, 6, 2))
  /\ UNCHANGED cycleV

\* Mutant: the altitude is printed in the pressure-temperature column.
LoopPrintPressTemp_Alt ==
  /\ BufferedPrint("l_f_ptemp", "l_f_palt", <<",">>, Dtostrf(press_Alt, 6, 2))
  /\ UNCHANGED cycleV

\* Lines 283-287.
LoopPrintPressTemp ==
  /\ BufferedPrint("l_f_ptemp", "l_f_palt", <<",">>, Dtostrf(press_Temp, 4, 2))
  /\ UNCHANGED cycleV

\* Lines 289-293.
LoopPrintPressAlt ==
  /\ BufferedPrint("l_f_palt", "l_f_probe", <<",">>, Dtostrf(press_Alt, 6, 2))
  /\ UNCHANGED cycleV

\* Lines 295-300.
LoopPrintProbe ==
  /\ BufferedPrint("l_f_probe", "l_f_co2", <<",">>, Dtostrf(probeTempC, 4, 2))
  /\ UNCHANGED cycleV

\* Lines 302-306.
LoopPrintCo2 ==
  /\ DirectPrint("l_f_co2", "l_f_scd_t", <<",">> \o PrintInt(scd4x_co2))
  /\ UNCHANGED cycleV

\* Lines 308-312.
LoopPrintScdTemp ==
  /\ BufferedPrint("l_f_scd_t", "l_f_scd_h", <<",">>, Dtostrf(scd4x_temp, 4, 2))
  /\ UNCHANGED cycleV

\* Lines 314-318.
LoopPrintScdHum ==
  /\ BufferedPrint("l_f_scd_h", "l_eol", <<",">>, Dtostrf(scd4x_hum, 4, 2))
  /\ UNCHANGED cycleV

\* Mutant: the line is terminated on the console only.
LoopPrintEol_SerialOnly ==
  /\ Goto("l_eol", "l_close")
  /\ serialOut' = serialOut \o EOL
  /\ UNCHANGED <<spi, led, dataFile, tempBuffer, sensorV, scdV, cardV, cycleV>>

\* Lines 320-322.
LoopPrintEol ==
  /\ DirectPrint("l_eol", "l_close", EOL)
  /\ UNCHANGED cycleV

\* Mutant: SPI.end() directly after the close, before the pulse and wait.
LoopClose_ThenRelease ==
  /\ Goto("l_close", "l_led_low")
  /\ dataFile' = IF dataFile = "open" THEN "closed" ELSE dataFile
  /\ spi' = FALSE
  /\ rel' = rel + 1
  /\ UNCHANGED <<serialOut, led, tempBuffer, sensorV, scdV, cardV, cycle,
                 waited, acq, pulses, fileAtStart, lineStart, opened,
                 prevOutcome>>

\* Line 325.
LoopClose ==
  /\ Goto("l_close", "l_led_low")
  /\ dataFile' = IF dataFile = "open" THEN "closed" ELSE dataFile
  /\ UNCHANGED <<spi, serialOut, led, tempBuffer, sensorV, scdV, cardV, cycleV>>

\* Line 328.
LoopLedLow ==
  /\ Goto("l_led_low", "l_blink")
  /\ led' = "LOW"
  /\ UNCHANGED <<spi, serialOut, dataFile, tempBuffer, sensorV, scdV, cardV,
                 cycleV>>

\* Line 329.
LoopBlinkDelay ==
  /\ Goto("l_blink", "l_led_high")
  /\ waited' = waited + BLINK_MS
  /\ UNCHANGED <<spi, serialOut, led, dataFile, tempBuffer, sensorV, scdV,
                 cardV, cycle, acq, rel, pulses, fileAtStart, lineStart,
                 opened, prevOutcome>>

\* Line 330.
LoopLedHigh ==
  /\ Goto("l_led_high", "l_rest")
  /\ led' = "HIGH"
  /\ pulses' = pulses + 1
  /\ UNCHANGED <<spi, serialOut, dataFile, tempBuffer, sensorV, scdV, cardV,
                 cycle, waited, acq, rel, fileAtStart, lineStart, opened,
                 prevOutcome>>

\* Mutant: a full interval is waited after the pulse.
LoopRestDelay_Full ==
  /\ Goto("l_rest", "l_spiend")
  /\ waited' = waited + RETRY_MS
  /\ UNCHANGED <<spi, serialOut, led, dataFile, tempBuffer, sensorV, scdV,
                 cardV, cycle, acq, rel, pulses, fileAtStart, lineStart,
                 opened, prevOutcome>>

\* Line 333.
LoopRestDelay ==
  /\ Goto("l_rest", "l_spiend")
  /\ waited' = waited + REST_MS
  /\ UNCHANGED <<spi, serialOut, led, dataFile, tempBuffer, sensorV, scdV,
                 cardV, cycle, acq, rel, pulses, fileAtStart, lineStart,
                 opened, prevOutcome>>

\* Mutant: the failure branch acknowledges like the success branch.
LoopOpenFail_Blinks ==
  /\ Goto("l_fail", "l_led_low")
  /\ SerialPrintln(<<"SD Open Fail">>)
  /\ UNCHANGED <<spi, led, dataFile, tempBuffer, sensorV, scdV, cardV, cycleV>>

\* Mutant: a failed open is not reported on the console.
LoopOpenFail_Silent ==
  /\ Goto("l_fail", "l_retry")
  /\ UNCHANGED <<spi, serialOut, led, dataFile, tempBuffer, sensorV, scdV,
                 cardV, cycleV>>

\* Line 337.
LoopOpenFail ==
  /\ Goto("l_fail", "l_retry")
  /\ SerialPrintln(<<"SD Open Fail">>)
  /\ UNCHANGED <<spi, led, dataFile, tempBuffer, sensorV, scdV, cardV, cycleV>>

\* Mutant: SPI.end() only inside the success branch.
LoopRetryDelay_NoRelease ==
  /\ Goto("l_retry", "l_return")
  /\ waited' = waited + RETRY_MS
  /\ UNCHANGED <<spi, serialOut, led, dataFile, tempBuffer, sensorV, scdV,
                 cardV, cycle, acq, rel, pulses, fileAtStart, lineStart,
                 opened, prevOutcome>>

\* Line 340.
LoopRetryDelay ==
  /\ Goto("l_retry", "l_spiend")
  /\ waited' = waited + RETRY_MS
  /\ UNCHANGED <<spi, serialOut, led, dataFile, tempBuffer, sensorV, scdV,
                 cardV, cycle, acq, rel, pulses, fileAtStart, lineStart,
                 opened, prevOutcome>>

\* Line 344.
LoopSpiEnd ==
  /\ Goto("l_spiend", "l_return")
  /\ spi' = FALSE
  /\ rel' = rel + 1
  /\ UNCHANGED <<serialOut, led, dataFile, tempBuffer, sensorV, scdV, cardV,
                 cycle, waited, acq, pulses, fileAtStart, lineStart, opened,
                 prevOutcome>>

\* Line 347: loop() returns, its locals end, and main() calls it again.
LoopReturn ==
  /\ Goto("l_return", "l_dht_h")
  /\ retAddr = "intact"
  /\ cycle + 1 < MaxCycles
  /\ cycle' = cycle + 1
  /\ dht_h' = 0 /\ dht_t' = 0 /\ uvValue' = 0
  /\ press_mBar' = 0 /\ press_Temp' = 0 /\ press_Alt' = 0
  /\ now' = <<0, 0, 0, 0, 0, 0>>
  /\ probeTempC' = 0
  /\ error' = 0 /\ isDataReady' = FALSE
  /\ dataFile' = "closed"
  /\ tempBuffer' = <<>>
  /\ serialOut' = <<>>
  /\ waited' = 0 /\ acq' = 0 /\ rel' = 0 /\ pulses' = 0
  /\ fileAtStart' = file
  /\ lineStart' = -1
  /\ opened' = "pending"
  /\ prevOutcome' = opened
  /\ UNCHANGED <<spi, led, retAddr, scd4x_co2, scd4x_temp, scd4x_hum, lastGood,
                 cardV>>

\* Line 347 with the return address written over by line 240: the return
\* jumps to an address that is not main()'s call site, and execution of the
\* sketch as written ends there.
LoopReturnAstray ==
  /\ Goto("l_return", "astray")
  /\ retAddr = "smashed"
  /\ UNCHANGED <<spi, serialOut, led, dataFile, tempBuffer, sensorV, scdV,
                 cardV, cycleV>>

Loop ==
  \/ LoopReadDhtH \/ LoopReadDhtT \/ LoopReadUv \/ LoopReadMs5611
  \/ LoopReadRtc \/ LoopProbeRequest \/ LoopProbeGet \/ LoopScdReady
  \/ LoopScdRead \/ LoopSpiBegin \/ LoopOpen \/ LoopPrintTimestamp
  \/ LoopPrintDhtTemp \/ LoopPrintDhtHum \/ LoopPrintUv \/ LoopPrintPressure
  \/ LoopPrintPressTemp \/ LoopPrintPressAlt \/ LoopPrintProbe
  \/ LoopPrintCo2 \/ LoopPrintScdTemp \/ LoopPrintScdHum \/ LoopPrintEol
  \/ LoopClose \/ LoopLedLow \/ LoopBlinkDelay \/ LoopLedHigh
  \/ LoopRestDelay \/ LoopOpenFail \/ LoopRetryDelay \/ LoopSpiEnd
  \/ LoopReturn \/ LoopReturnAstray

Next == Setup \/ Loop

Spec == Init /\ [][Next]_vars

\* One thread of control and no statement that waits on another party: the
\* processor always executes the next statement.
FairSpec == Spec /\ WF_vars(Next)

\* ------------------------------------------------------ claim helpers
ProbePCs == {"s_probe", "l_probe_req", "l_probe_get"}
SetupStoragePCs == {"s_exists", "s_create", "s_hdr", "s_close"}
LoopStoragePCs ==
  {"l_open", "l_ts", "l_f_dht_t", "l_f_dht_h", "l_f_uv", "l_f_press",
   "l_f_ptemp", "l_f_palt", "l_f_probe", "l_f_co2", "l_f_scd_t", "l_f_scd_h",
   "l_eol", "l_close"}
\* After the record's last print, up to the end of the cycle.
AfterRecordPCs ==
  {"l_close", "l_led_low", "l_blink", "l_led_high", "l_rest", "l_spiend",
   "l_return"}
AfterFailPCs == {"l_retry", "l_spiend", "l_return"}
IntervalMs == 5000

\* What the running cycle has added to datalog.csv and, from the start of
\* its data line, to the console.
Gained == SubSeq(file, Len(fileAtStart) + 1, Len(file))
ConsoleLine ==
  IF lineStart < 0 THEN <<>>
  ELSE SubSeq(serialOut, lineStart + 1, Len(serialOut))
KeepsOldContent ==
  /\ Len(file) >= Len(fileAtStart)
  /\ SubSeq(file, 1, Len(fileAtStart)) = fileAtStart

Count(text, piece) == Cardinality({i \in DOMAIN text : text[i] = piece})

\* A timestamp, ten non-empty fields, one terminator at the end.
IsCompleteLine(l) ==
  /\ Len(l) >= 40
  /\ l[Len(l)] = "\r\n"
  /\ Count(l, "\r\n") = 1
  /\ Count(l, ",") = 10
  /\ l[20] = ","
  /\ \A i \in 1..19 : l[i] # ","
  /\ l[Len(l) - 1] # ","
  /\ \A i \in 1..(Len(l) - 1) : ~(l[i] = "," /\ l[i + 1] = ",")

\* The fields of a line: the pieces between its commas, terminator dropped.
NotEol(piece) == piece # "\r\n"
FirstComma(l) ==
  CHOOSE i \in 1..Len(l) : l[i] = "," /\ \A j \in 1..(i - 1) : l[j] # ","
RECURSIVE SplitAtCommas(_)
SplitAtCommas(l) ==
  IF \A i \in 1..Len(l) : l[i] # "," THEN <<l>>
  ELSE <<SubSeq(l, 1, FirstComma(l) - 1)>>
       \o SplitAtCommas(SubSeq(l, FirstComma(l) + 1, Len(l)))
SplitFields(line) == SplitAtCommas(SelectSeq(line, NotEol))

\* The schema of a record, in the order the specification gives it: the
\* header name of each field and the text of the value it carries.
SchemaNames ==
  <<"Timestamp", "DHT_Temp(C)", "DHT_Hum(%)", "UV_Raw", "Press(mBar)",
    "Press_Temp(C)", "Press_Alt(Ft)", "Probe_Temp(C)", "CO2(ppm)",
    "SCD_Temp(C)", "SCD_Hum(%)">>
SchemaValues ==
  <<SprintfTimestamp(now),
    IF dht_t = NaN THEN <<"N", "a", "N">> ELSE Dtostrf(dht_t, 4, 2),
    IF dht_h = NaN THEN <<"N", "a", "N">> ELSE Dtostrf(dht_h, 4, 2),
    PrintInt(uvValue),
    Dtostrf(press_mBar, 6, 2),
    Dtostrf(press_Temp, 4, 2),
    Dtostrf(press_Alt, 6, 2),
    Dtostrf(probeTempC, 4, 2),
    PrintInt(scd4x_co2),
    Dtostrf(scd4x_temp, 4, 2),
    Dtostrf(scd4x_hum, 4, 2)>>

\* ------------------------------------------------------------ claims
\* C1: no single-wire probe operation (sensors.begin, requestTemperatures,
\* getTempCByIndex) is executed while the SPI hardware is enabled.
C1_ProbeNeverInStorageMode == pc \in ProbePCs => ~spi

\* A probe read in the cycle after one that held the bus and failed to open.
C1_Witness ==
  pc = "l_probe_get" /\ cycle = 1 /\ prevOutcome = "fail" /\ ~spi

\* C2: every loop cycle calls SPI.begin once and SPI.end once on either
\* path, and the bus is released when the cycle starts and when it exits.
C2_BalancedAcquireRelease ==
  /\ pc = "l_dht_h" => ~spi /\ acq = 0 /\ rel = 0
  /\ pc = "l_return" => ~spi /\ acq = 1 /\ rel = 1
  /\ pc \in LoopStoragePCs \cup AfterRecordPCs \cup AfterFailPCs \cup {"l_fail"}
       => acq = 1 /\ rel <= 1

\* A failed cycle exits balanced after a successful one did.
C2_Witness ==
  /\ pc = "l_return" /\ opened = "fail" /\ prevOutcome = "ok"
  /\ acq = 1 /\ rel = 1 /\ ~spi

C4_StorageOpsInStorageMode ==
  /\ pc \in SetupStoragePCs \cup LoopStoragePCs => spi
  /\ pc \in SetupStoragePCs => acq = 2 /\ rel = 1
  /\ pc \in LoopStoragePCs => acq = 1 /\ rel = 0
  /\ dataFile = "open" => spi

\* The header is about to be written to a file created in setup.
C4_Witness == pc = "s_hdr" /\ dataFile = "open" /\ spi

\* C5: a cycle whose SD.open fails adds nothing to the file, prints the
\* "SD Open Fail" line and no data line, does not pulse the LED, waits 5000
\* ms, releases the bus, and the next cycle starts a normal attempt.
C5_OpenFailureIsolated ==
  /\ (opened = "fail" /\ pc \in AfterFailPCs \cup {"l_fail"})
       => /\ file = fileAtStart
          /\ lineStart = -1 /\ Count(serialOut, ",") = 0
          /\ pulses = 0 /\ led = "HIGH"
          /\ dataFile = "closed"
  /\ (opened = "fail" /\ pc \in AfterFailPCs)
       => /\ Len(serialOut) >= 2
          /\ SubSeq(serialOut, Len(serialOut) - 1, Len(serialOut))
               = <<"SD Open Fail", "\r\n">>
          /\ Count(serialOut, "SD Open Fail") = 1
  /\ (opened = "fail" /\ pc \in {"l_spiend", "l_return"}) => waited = IntervalMs
  /\ (opened = "fail" /\ pc = "l_return") => ~spi /\ rel = 1
  /\ (prevOutcome = "fail" /\ pc = "l_dht_h")
       => /\ ~spi /\ led = "HIGH" /\ dataFile = "closed"
          /\ opened = "pending" /\ waited = 0 /\ acq = 0 /\ rel = 0
          /\ serialOut = <<>> /\ file = fileAtStart
  /\ (prevOutcome = "fail" /\ pc = "l_open") => spi /\ acq = 1 /\ rel = 0

\* The cycle after a failed open has opened the file and logged a record.
C5_Witness ==
  /\ prevOutcome = "fail" /\ opened = "ok" /\ pc = "l_return"
  /\ IsCompleteLine(Gained)

\* C6: at a cycle boundary the file has gained one complete line (timestamp,
\* ten fields, terminator) or nothing; never part of a record, never two.
C6_RecordWholeOrAbsent ==
  /\ KeepsOldContent
  /\ Count(Gained, "\r\n") <= 1
  /\ pc \in {"l_spiend", "l_return"} => Gained = <<>> \/ IsCompleteLine(Gained)
  /\ pc = "l_dht_h" => Gained = <<>>

\* A second record has been appended behind the first.
C6_Witness ==
  /\ pc = "l_return" /\ cycle = 1 /\ prevOutcome = "ok"
  /\ IsCompleteLine(Gained) /\ Len(fileAtStart) > Len(Println(FileHeader))

\* C7 as stated: in a cycle whose open succeeded, the data line on the
\* console and the text added to the file are the same sequence.
C7_SinksIdentical ==
  (opened = "ok" /\ pc \in AfterRecordPCs) => Gained = ConsoleLine

\* C8: a data line is the timestamp and the ten values in schema order,
\* separated by single commas, with no trailing comma; the headers written
\* in setup name the same eleven columns in the same order.
C8_LineMatchesHeader ==
  /\ pc = "s_hdr"
       => SplitFields(FileHeader) = [i \in 1..11 |-> <<SchemaNames[i]>>]
  /\ pc = "s_header"
       => SplitFields(SerialHeader) = [i \in 1..11 |-> <<SchemaNames[i]>>]
  /\ (opened = "ok" /\ pc \in AfterRecordPCs)
       => /\ SplitFields(ConsoleLine) = SchemaValues
          /\ IsCompleteLine(ConsoleLine)
          /\ Gained # <<>> => (SplitFields(Gained) = SchemaValues
                               /\ IsCompleteLine(Gained))
  /\ pc = "s_close" => file = Println(FileHeader)
  /\ pc = "s_return"
       => SubSeq(serialOut, Len(serialOut) - Len(SerialHeader),
                 Len(serialOut)) = Println(SerialHeader)

\* A record with a NaN temperature lies in the file behind the header that
\* setup wrote.
C8_Witness ==
  /\ pc = "l_close" /\ dataFile = "open" /\ dht_t = NaN
  /\ fileAtStart = Println(FileHeader)
  /\ SplitFields(Gained) = SchemaValues

\* C9: every cycle has spent 5000 ms in delay() when it ends: 100 ms pulse
\* plus 4900 ms on the success path, one 5000 ms wait and no pulse on the
\* failure path.
C9_TotalWait ==
  /\ pc \in {"l_spiend", "l_return"} => waited = IntervalMs
  /\ (pc \in {"l_spiend", "l_return"} /\ opened = "ok") => pulses = 1
  /\ (pc \in {"l_spiend", "l_return"} /\ opened = "fail") => pulses = 0
  /\ pc = "l_rest" => waited = BLINK_MS /\ pulses = 1
  /\ pc = "l_retry" => waited = 0 /\ pulses = 0
  /\ pc = "l_blink" => led = "LOW" /\ waited = 0

\* A successful cycle is over: pulse and rest add up to the interval.
C9_Witness ==
  /\ pc = "l_return" /\ opened = "ok" /\ pulses = 1
  /\ waited = BLINK_MS + REST_MS

\* C10: the CO2 values carried and logged are those of the last read that
\* was data-ready and returned no error (0 / 0.0 / 0.0 before the first);
\* a not-ready status or a read error leaves them as they were.
C10_Co2CarriesLastGood ==
  /\ <<scd4x_co2, scd4x_temp, scd4x_hum>> = lastGood
  /\ (opened = "ok" /\ pc \in AfterRecordPCs)
       => /\ SubSeq(SplitFields(ConsoleLine), 9, 11)
               = <<PrintInt(lastGood[1]), Dtostrf(lastGood[2], 4, 2),
                   Dtostrf(lastGood[3], 4, 2)>>
          /\ Gained # <<>>
               => SubSeq(SplitFields(Gained), 9, 11)
                    = <<PrintInt(lastGood[1]), Dtostrf(lastGood[2], 4, 2),
                        Dtostrf(lastGood[3], 4, 2)>>

\* The second cycle's read failed and its record carries the first cycle's
\* measurement.
C10_Witness ==
  /\ pc = "l_close" /\ cycle = 1 /\ dataFile = "open"
  /\ isDataReady /\ error # 0
  /\ lastGood \in SCD_Values
  /\ SubSeq(SplitFields(Gained), 9, 11)
       = <<PrintInt(lastGood[1]), Dtostrf(lastGood[2], 4, 2),
           Dtostrf(lastGood[3], 4, 2)>>

\* The statements between the last sensor read and the end of the record:
\* the locals read at the top of loop() are only read there.
ReadToPrintPCs ==
  {"l_scd_ready", "l_scd_read", "l_spibegin", "l_open", "l_ts", "l_f_dht_t",
   "l_f_dht_h", "l_f_uv", "l_f_press", "l_f_ptemp", "l_f_palt", "l_f_probe",
   "l_f_co2", "l_f_scd_t", "l_f_scd_h", "l_eol"}

\* The DHT and probe columns of a finished data line render the locals by
\* the sentinel rules; the other columns do not depend on them.
SentinelRendering ==
  (opened = "ok" /\ pc \in AfterRecordPCs)
    => LET f == SplitFields(ConsoleLine)
       IN /\ Len(f) = 11
          /\ f[2] = (IF dht_t = NaN THEN <<"N", "a", "N">>
                     ELSE Dtostrf(dht_t, 4, 2))
          /\ f[3] = (IF dht_h = NaN THEN <<"N", "a", "N">>
                     ELSE Dtostrf(dht_h, 4, 2))
          /\ (probeTempC = DEVICE_DISCONNECTED_C
                => f[8] = <<"-", "1", "2", "7", ".", "0", "0">>)
          /\ f[1] = SprintfTimestamp(now)
          /\ f[4] = PrintInt(uvValue)
          /\ f[5] = Dtostrf(press_mBar, 6, 2)
          /\ f[6] = Dtostrf(press_Temp, 4, 2)
          /\ f[7] = Dtostrf(press_Alt, 6, 2)
          /\ f[9] = PrintInt(scd4x_co2)
          /\ f[10] = Dtostrf(scd4x_temp, 4, 2)
          /\ f[11] = Dtostrf(scd4x_hum, 4, 2)

\* The locals holding the readings are left alone by a step.
ReadingsKept ==
  /\ dht_t' = dht_t /\ dht_h' = dht_h /\ probeTempC' = probeTempC
  /\ uvValue' = uvValue /\ press_mBar' = press_mBar
  /\ press_Temp' = press_Temp /\ press_Alt' = press_Alt

\* C11 as stated: a NaN DHT reading is written as NaN, a disconnected probe
\* reading as -127.00, every other column as with a valid reading.  The
\* readings taken at the top of the cycle are the values the prints render.
C11_SentinelSubstitution ==
  /\ []SentinelRendering
  /\ [][(pc \in ReadToPrintPCs) => ReadingsKept]_vars

\* The file's first line is the header written at line 170.
StartsWithHeader(content) ==
  /\ Len(content) >= Len(Println(FileHeader))
  /\ SubSeq(content, 1, Len(Println(FileHeader))) = Println(FileHeader)

\* C12 as stated: a log file that exists and is not empty starts with the
\* CSV header, and loop() only ever appends to a file that starts with it.
C12_HeaderFirst ==
  /\ []((fileExists /\ file # <<>>) => StartsWithHeader(file))
  /\ [][(pc \in LoopStoragePCs /\ file' # file) => StartsWithHeader(file)]_vars

\* The statements during which the pin is LOW: delay(100) and the
\* digitalWrite(HIGH) that ends the pulse.
PulsePCs == {"l_blink", "l_led_high"}

SetupPCs ==
  {"s_serial", "s_led", "s_dht", "s_ms5611", "s_rtc", "s_scd", "s_sdbegin",
   "s_spiend1", "s_probe", "s_delay", "s_spibegin", "s_exists", "s_create",
   "s_hdr", "s_close", "s_spiend2", "s_header", "s_return"}

\* The announcements that open the five initialisations of setup().
InitAnnouncements ==
  {"Initializing MS5611 (Pressure)...", "Initializing DS1307 (RTC)...",
   "Initializing SCD41 (CO2)...", "Initializing SD card...",
   "Initializing DS18B20 (Temp Probe)..."}

EndsWith(text, tail) ==
  /\ Len(text) >= Len(tail)
  /\ SubSeq(text, Len(text) - Len(tail) + 1, Len(text)) = tail

\* C15: whatever the initialisations and the header-file creation return,
\* setup() always has a next statement until it returns; when it returns
\* each initialisation was made once, the console header was printed once
\* and is the end of the output, SPI is off with no file open, and the
\* first loop() call follows.
C15_SetupCompletes ==
  /\ (pc \in SetupPCs) => ENABLED Setup
  /\ (pc = "s_return")
       => /\ EndsWith(serialOut, Println(SerialHeader))
          /\ Count(serialOut, SerialHeader[1]) = 1
          /\ \A a \in InitAnnouncements : Count(serialOut, a) = 1
          /\ ~spi /\ acq = rel /\ dataFile = "closed"
          /\ cycle = 0 /\ opened = "pending"

C15_Witness ==
  /\ pc = "s_return"
  /\ sdOk /\ ~fileExists
  /\ Count(serialOut, "Error creating datalog.csv") = 1
  /\ Count(serialOut, "MS5611 not found. Check wiring.") = 1
  /\ Count(serialOut, "Couldn't find RTC! Check wiring.") = 1
  /\ Count(serialOut, "Error starting SCD41: ") = 1

\* The statements of loop() that read the sensors and the clock.
LoopReadPCs ==
  {"l_dht_h", "l_dht_t", "l_uv", "l_ms5611", "l_rtc", "l_probe_req",
   "l_probe_get", "l_scd_ready", "l_scd_read"}

\* C16: the clock and the five sensors are read with SPI off and before the
\* cycle's SPI.begin(); when SPI.begin() is reached every reading of the
\* cycle has been made, and no read statement runs while SPI is on.
C16_ReadsBeforeAcquire ==
  /\ (pc \in LoopReadPCs) => (~spi /\ acq = 0)
  /\ (pc = "l_spibegin")
       => /\ ~spi /\ acq = 0
          /\ dht_h \in DHT_H_Values /\ dht_t \in DHT_T_Values
          /\ uvValue \in UV_Values
          /\ <<press_mBar, press_Temp, press_Alt>> \in MS5611_Values
          /\ now \in RTC_Values
          /\ probeTempC \in Probe_Values
          /\ error \in SCD_Errors
  /\ (spi /\ pc \notin SetupPCs)
       => pc \in (LoopStoragePCs \cup AfterRecordPCs \cup AfterFailPCs
                    \cup {"l_fail"}) \ {"l_return"}

C16_Witness ==
  /\ pc = "l_open" /\ spi /\ acq = 1 /\ cycle = 1
  /\ dht_t = NaN /\ probeTempC = DEVICE_DISCONNECTED_C /\ error # 0

\* C17 as stated: the file opened by a cycle is closed by dataFile.close()
\* before the pulse and the wait, a failed cycle holds no open file, setup()
\* closes the file it creates before SPI.end(), and SPI is never switched off
\* with a file still open.
C17_NoFileOpenAcrossCycles ==
  /\ (pc \in (AfterRecordPCs \ {"l_close"}) /\ opened = "ok")
       => dataFile = "closed"
  /\ (opened = "fail") => dataFile = "closed"
  /\ (pc \in {"s_spiend2", "s_header", "s_return", "l_spiend", "l_return"})
       => dataFile = "closed"
  /\ (pc \in LoopReadPCs \cup {"l_spibegin", "l_open"}) => dataFile = "closed"
  /\ (dataFile # "closed") => spi

\* The one line a cycle owes the console: its data line, or the failure
\* message.
CycleLine ==
  IF opened = "ok" THEN ConsoleLine ELSE Println(<<"SD Open Fail">>)

\* The line printed by lines 220 / 226 when the SCD4x driver returned an
\* error: the status query's when no read followed, else the read's.
ScdDiagnostic ==
  IF error = 0 THEN <<>>
  ELSE <<(IF isDataReady THEN "SCD4M_ERR:" ELSE "SCD4R_ERR:")>>
         \o Println(PrintInt(error))

\* C18 as stated: a cycle's console output is exactly one line, the data
\* line or SD Open Fail, and nothing else.
C18_OneLinePerCycle ==
  (pc = "l_return")
    => /\ serialOut = CycleLine
       /\ Count(serialOut, "\r\n") = 1

\* C18, amended: a cycle's console output is at most one SCD4x diagnostic
\* line (SCD4R_ERR:<code> or SCD4M_ERR:<code>) followed by exactly one
\* line, the data line or SD Open Fail, and nothing else.
C18_OneLineAfterDiagnostic ==
  (pc = "l_return")
    => /\ serialOut = ScdDiagnostic \o CycleLine
       /\ (opened = "ok") => IsCompleteLine(ConsoleLine)
       /\ opened \in {"ok", "fail"}
       /\ Count(serialOut, "\r\n") = (IF error = 0 THEN 1 ELSE 2)

C18_Witness ==
  /\ pc = "l_return" /\ cycle = 1
  /\ error # 0 /\ isDataReady
  /\ opened = "ok"
  /\ Count(serialOut, "SCD4M_ERR:") = 1
  /\ Count(serialOut, "\r\n") = 2

\* C19 as stated: every text formatted into tempBuffer, with its
\* terminating NUL, fits in the 12 bytes of the buffer; the 19-character
\* timestamp too.
C19_TempBufferFits ==
  /\ ~Overflows(tempBuffer)
  /\ (pc = "l_ts") => ~Overflows(SprintfTimestamp(now))

\* A step leaves what datalog.csv held in place, at most adding to its end.
FileOnlyGrows ==
  /\ Len(file') >= Len(file)
  /\ SubSeq(file', 1, Len(file)) = file

\* C20: a step never removes or rewrites content of datalog.csv, and no
\* statement of loop() creates the file; while SD.exists would be false
\* after setup(), every open fails, no cycle succeeds and nothing is
\* logged; otherwise the content at the start of a cycle is a prefix of the
\* content throughout it.
C20_FileOnlyGrows ==
  /\ [][FileOnlyGrows]_vars
  /\ [][(pc \notin SetupPCs) => (fileExists' = fileExists /\ sdOk' = sdOk)]_vars
  /\ []((pc \notin SetupPCs /\ ~SdExists)
          => /\ opened # "ok" /\ prevOutcome # "ok"
             /\ dataFile = "closed"
             /\ file = fileAtStart)
  /\ []((pc \notin SetupPCs /\ ~fileExists) => file = <<>>)
  /\ []KeepsOldContent

C20_Witness ==
  /\ pc = "l_return" /\ cycle = 1
  /\ sdOk /\ ~fileExists
  /\ opened = "fail" /\ prevOutcome = "fail"
  /\ file = <<>>

=============================================================================
